---- MODULE Spec2Model ----
(***************************************************************************)
(* Windowed event caches of the wildfires API: DataSource (the cache of    *)
(* one wildfire and one data source), its adapters' selection hooks, the   *)
(* registry of caches built at start-up and the periodic updateData tick.  *)
(*                                                                         *)
(* Dates are integers (milliseconds since the epoch), event timestamps are *)
(* integers (seconds).  JavaScript runs one callback at a time, so every   *)
(* action below is the code that runs between two suspension points.       *)
(***************************************************************************)
EXTENDS Integers, Sequences, FiniteSets, TLC

----------------------------------------------------------------------------
(* Bounds of the model *)

MaxNow == 2            \* the clock takes the values 0 .. MaxNow * StepMs
StepMs == 750          \* milliseconds between two clock values
MaxFetch == 1          \* most events one fetchInterval call returns
MaxEvents == 2         \* most events a cache holds

(* Program constants *)

epsilon == 1000        \* dataSource.ts:95, milliseconds
NumberEpsilon == 1     \* Number.EPSILON; coordinates are counted in this unit
Null == -1             \* the null of dataPeriod.from / dataPeriod.to
NoEnd == -2            \* a wildfire whose "end" is undefined (live wildfire)

----------------------------------------------------------------------------
(* Helpers *)

Min(a, b) == IF a < b THEN a ELSE b
Max(a, b) == IF a > b THEN a ELSE b
Abs(x) == IF x < 0 THEN -x ELSE x
Range(s) == {s[i] : i \in 1..Len(s)}
RemoveAt(s, i) == [j \in 1..(Len(s) - 1) |-> IF j < i THEN s[j] ELSE s[j + 1]]

Entities == {"w1", "w2"}
\* loadWildfireConfigs fills its Map in directory order; Map iteration keeps it
EntityOrder == <<"w1", "w2">>
IndexOf(e) == CHOOSE i \in 1..Len(EntityOrder) : EntityOrder[i] = e

\* index.ts:30-35: the names with a constructor.  Announcements and FlightPings
\* have the hooks of Fires word for word, so "fires" stands for the three.
dataSources == {"fires", "metars"}
Caches == Entities \X dataSources

Clock == {i * StepMs : i \in 0..MaxNow}
Seconds == 0..((MaxNow * StepMs) \div 1000)

----------------------------------------------------------------------------
(* State *)

VARIABLES
    \* environment
    now,              \* Date.now() when the process last read the clock
    disk,             \* data/<entity>-<source>.json
    writable,         \* whether writeFileSync to the data directory succeeds
    \* process
    proc,             \* position of init(): boot, initialized, ticking, stalled, crashed
    wildfires,        \* index.ts:28, the registry
    wildfireConfigs,  \* index.ts:54, the configs of the latest tick (the fields queries read)
    \* DataSource fields, of every cache the registry holds
    data, dataPeriod, meta, isFetching,
    fetches,          \* the pending fetchInterval promises with the locals of their updateData
    \* history
    due,              \* the caches the configs the last step read ask for
    invoked,          \* the caches whose updateData the last step called
    lastCall,         \* how each of these calls left (skipped, satisfied, fetch) and
                      \* whether its config had left the selection the cache holds
    settled,          \* the fetch the last step settled, if any, and how
    rejections,       \* the promises the last step rejected with no handler attached
    pre,              \* the fields of a cache when its pending update was called
    replaceDue,       \* isFullFetchNeeded returned true and no fetch has resolved since
    \* HTTP
    request,          \* the GET /wildfires/:id the last step served, if it served one
    response          \* and what it answered

env == <<now, disk, writable>>
process == <<proc, wildfires, wildfireConfigs>>
cache == <<data, dataPeriod, meta, isFetching, fetches>>
history == <<due, invoked, lastCall, settled, rejections, pre, replaceDue>>
http == <<request, response>>
vars == <<env, process, cache, history, http>>

----------------------------------------------------------------------------
(* Values *)

\* A wildfire config file.  "valid" is isValidWildfire (utils.ts:6-25) of a file
\* that exists and parses; isValidWildfire does not look at dataSources, so a
\* valid config may lack the list (hasDataSources = FALSE).
Coordinate == {0, 3}
Airports == {"LGAV", "LGTS"}
StartChoices == {0, 2 * StepMs}
EndChoices == {NoEnd, StepMs}
NoFile == [valid |-> FALSE, boundingBox |-> 0, metarAirport |-> "LGAV", start |-> 0,
           end |-> NoEnd, hasDataSources |-> FALSE, dataSources |-> <<>>]
Wildfire(b, a, s, e, ds) ==
    [valid |-> TRUE, boundingBox |-> b, metarAirport |-> a, start |-> s, end |-> e,
     hasDataSources |-> TRUE, dataSources |-> ds]

\* types.ts:34-76.  A fire carries the place it was seen at, a METAR its station.
Fire(t, b) == [timestamp |-> t, event |-> "fire", position |-> b]
Metar(t, a) == [timestamp |-> t, event |-> "metar", icaoId |-> a]

\* JSON.stringify of a Date (toISOString, milliseconds kept) or of null
toISOString(d) == [type |-> "string", ms |-> d]
JsonNull == [type |-> "null", ms |-> 0]
stringifyDate(d) == IF d = Null THEN JsonNull ELSE toISOString(d)
\* new Date(x) of a parsed JSON value: new Date(null) is the epoch
NewDate(j) == IF j.type = "null" THEN 0 ELSE j.ms

----------------------------------------------------------------------------
(* The adapters' hooks.  m is the adapter's fields: [bounds] for Fires,       *)
(* [airportIcao, wildfireStart] for Metars.                                  *)

\* the fields of an adapter before any assignment
undefinedMeta(f) ==
    IF f = "metars" THEN [airportIcao |-> "", wildfireStart |-> JsonNull]
    ELSE [bounds |-> 0]

initFromWildfire(f, wildfire) ==
    IF f = "metars"
    THEN [airportIcao |-> wildfire.metarAirport,
          wildfireStart |-> [type |-> "Date", ms |-> wildfire.start]]
    ELSE [bounds |-> wildfire.boundingBox]

\* what JSON.stringify writes for getMeta()
getMeta(f, m) ==
    IF f = "metars"
    THEN [airportIcao |-> m.airportIcao,
          wildfireStart |-> [type |-> "string", ms |-> m.wildfireStart.ms]]
    ELSE [bounds |-> m.bounds]

\* Metars keeps the saved wildfireStart as the string it was parsed to
initFromSavedData(f, parsedData) ==
    IF f = "metars"
    THEN [airportIcao |-> parsedData.meta.airportIcao,
          wildfireStart |-> parsedData.meta.wildfireStart]
    ELSE [bounds |-> parsedData.meta.bounds]

isFullFetchNeeded(f, m, wildfire) ==
    IF f = "metars"
    THEN m.airportIcao # wildfire.metarAirport
    ELSE Abs(m.bounds - wildfire.boundingBox) > NumberEpsilon

\* what fetchInterval of an adapter with fields m may resolve to: events of the
\* current selection, in any order; Metars and FlightPings fetch whole days and
\* hours, so timestamps outside the asked range occur
Upstream(f, m) ==
    IF f = "metars" THEN {Metar(t, m.airportIcao) : t \in Seconds}
    ELSE {Fire(t, m.bounds) : t \in Seconds}
SeqsUpTo(S, n) == UNION {[1..k -> S] : k \in 0..n}

----------------------------------------------------------------------------
(* DataSource *)

\* dataSource.ts:109 and Array.prototype.sort, which is stable: e goes after
\* every element the comparator does not put behind it
mostRecentFirst(a, b) == b.timestamp - a.timestamp
RECURSIVE insertSorted(_, _)
insertSorted(s, e) ==
    IF s = <<>> THEN <<e>>
    ELSE IF mostRecentFirst(Head(s), e) > 0 THEN <<e>> \o s
    ELSE <<Head(s)>> \o insertSorted(Tail(s), e)
RECURSIVE sort(_)
sort(s) == IF s = <<>> THEN <<>> ELSE insertSorted(sort(SubSeq(s, 1, Len(s) - 1)), s[Len(s)])

noPeriod == [from |-> Null, to |-> Null]
noSnapshot(f) == [status |-> "none", period |-> [from |-> JsonNull, to |-> JsonNull],
                  data |-> <<>>, meta |-> undefinedMeta(f)]
corruptSnapshot(f) == [noSnapshot(f) EXCEPT !.status = "corrupt"]

\* load() that re-throws for a missing file as for any other failure
loadMissingThrows(c) ==
    LET parsedData == disk[c] IN
    IF parsedData.status = "ok"
    THEN [threw |-> FALSE, data |-> parsedData.data,
          dataPeriod |-> [from |-> NewDate(parsedData.period.from),
                          to |-> NewDate(parsedData.period.to)],
          meta |-> initFromSavedData(c[2], parsedData)]
    ELSE [threw |-> TRUE, data |-> <<>>,
          dataPeriod |-> noPeriod, meta |-> undefinedMeta(c[2])]

\* the fields of a DataSource after its own constructor: load() of the snapshot.
\* A missing file is no error; any other failure is re-thrown.
load(c) ==
    LET parsedData == disk[c] IN
    IF parsedData.status = "ok"
    THEN [threw |-> FALSE, data |-> parsedData.data,
          dataPeriod |-> [from |-> NewDate(parsedData.period.from),
                          to |-> NewDate(parsedData.period.to)],
          meta |-> initFromSavedData(c[2], parsedData)]
    ELSE [threw |-> parsedData.status = "corrupt", data |-> <<>>,
          dataPeriod |-> noPeriod, meta |-> undefinedMeta(c[2])]

\* new Fires(wildfire), new Metars(wildfire): super(...) runs load(), then the
\* adapter's constructor assigns its fields from the config
Constructed(c, wildfire) ==
    [load(c) EXCEPT !.meta = initFromWildfire(c[2], wildfire)]

\* a save() that writes the events the cache held before the fetch
snapshotOfOldEvents(c, events, period, m) ==
    [status |-> "ok",
     period |-> [from |-> stringifyDate(period.from), to |-> stringifyDate(period.to)],
     data |-> data[c], meta |-> getMeta(c[2], m)]

\* what save() writes
snapshot(c, events, period, m) ==
    [status |-> "ok",
     period |-> [from |-> stringifyDate(period.from), to |-> stringifyDate(period.to)],
     data |-> events, meta |-> getMeta(c[2], m)]

\* updateData that asks fetchInterval for the desired interval only
proceedDesiredOnly(c, wildfire, t) ==
    LET from == wildfire.start
        to == IF wildfire.end # NoEnd THEN wildfire.end ELSE t
        fullFetchNeeded == isFullFetchNeeded(c[2], meta[c], wildfire)
        m == IF fullFetchNeeded THEN initFromWildfire(c[2], wildfire) ELSE meta[c]
        period == IF fullFetchNeeded THEN noPeriod ELSE dataPeriod[c]
        locals == [fullFetchNeeded |-> fullFetchNeeded, from |-> from, to |-> to,
                   fetchFrom |-> from, fetchTo |-> to]
    IN  IF \/ period.from = Null
           \/ period.to = Null
           \/ from < period.from - epsilon
           \/ to > period.to + epsilon
        THEN [call |-> "fetch", fullFetchNeeded |-> fullFetchNeeded, meta |-> m,
              dataPeriod |-> period, isFetching |-> TRUE,
              fetches |-> Append(fetches[c], locals)]
        ELSE [call |-> "satisfied", fullFetchNeeded |-> fullFetchNeeded, meta |-> m,
              dataPeriod |-> period, isFetching |-> isFetching[c],
              fetches |-> fetches[c]]

\* updateData that fetches as soon as the desired interval reaches the tolerance
proceedAtTolerance(c, wildfire, t) ==
    LET from == wildfire.start
        to == IF wildfire.end # NoEnd THEN wildfire.end ELSE t
        fullFetchNeeded == isFullFetchNeeded(c[2], meta[c], wildfire)
        m == IF fullFetchNeeded THEN initFromWildfire(c[2], wildfire) ELSE meta[c]
        period == IF fullFetchNeeded THEN noPeriod ELSE dataPeriod[c]
        fetchFrom == IF period.from # Null THEN Min(from, period.from) ELSE from
        fetchTo == IF period.to # Null THEN Max(to, period.to) ELSE to
        locals == [fullFetchNeeded |-> fullFetchNeeded, from |-> from, to |-> to,
                   fetchFrom |-> fetchFrom, fetchTo |-> fetchTo]
    IN  IF \/ period.from = Null
           \/ period.to = Null
           \/ from <= period.from - epsilon
           \/ to >= period.to + epsilon
        THEN [call |-> "fetch", fullFetchNeeded |-> fullFetchNeeded, meta |-> m,
              dataPeriod |-> period, isFetching |-> TRUE,
              fetches |-> Append(fetches[c], locals)]
        ELSE [call |-> "satisfied", fullFetchNeeded |-> fullFetchNeeded, meta |-> m,
              dataPeriod |-> period, isFetching |-> isFetching[c],
              fetches |-> fetches[c]]

\* updateData(wildfire) at time t once it is past its guard, dataSource.ts:81-111,
\* up to the await: the fields it leaves, and "call": satisfied (nothing to
\* fetch) or fetch (fetchInterval was called and is awaited)
proceed(c, wildfire, t) ==
    LET from == wildfire.start
        to == IF wildfire.end # NoEnd THEN wildfire.end ELSE t
        fullFetchNeeded == isFullFetchNeeded(c[2], meta[c], wildfire)
        m == IF fullFetchNeeded THEN initFromWildfire(c[2], wildfire) ELSE meta[c]
        period == IF fullFetchNeeded THEN noPeriod ELSE dataPeriod[c]
        fetchFrom == IF period.from # Null THEN Min(from, period.from) ELSE from
        fetchTo == IF period.to # Null THEN Max(to, period.to) ELSE to
        locals == [fullFetchNeeded |-> fullFetchNeeded, from |-> from, to |-> to,
                   fetchFrom |-> fetchFrom, fetchTo |-> fetchTo]
    IN  IF \/ period.from = Null
           \/ period.to = Null
           \/ from < period.from - epsilon
           \/ to > period.to + epsilon
        THEN [call |-> "fetch", fullFetchNeeded |-> fullFetchNeeded, meta |-> m,
              dataPeriod |-> period, isFetching |-> TRUE,
              fetches |-> Append(fetches[c], locals)]
        ELSE [call |-> "satisfied", fullFetchNeeded |-> fullFetchNeeded, meta |-> m,
              dataPeriod |-> period, isFetching |-> isFetching[c],
              fetches |-> fetches[c]]

\* dataSource.ts:77-80: a fetch is in progress, the call returns at once
skipped(c) ==
    [call |-> "skipped", fullFetchNeeded |-> FALSE, meta |-> meta[c],
     dataPeriod |-> dataPeriod[c], isFetching |-> isFetching[c], fetches |-> fetches[c]]

\* updateData without its guard
updateDataUnguarded(c, wildfire, t) == proceed(c, wildfire, t)

\* updateData that asks isFullFetchNeeded before it looks at its guard
updateDataGuardedLate(c, wildfire, t) ==
    IF isFetching[c]
    THEN [skipped(c) EXCEPT !.meta = proceed(c, wildfire, t).meta,
                            !.dataPeriod = proceed(c, wildfire, t).dataPeriod]
    ELSE proceed(c, wildfire, t)

\* The synchronous part of updateData(wildfire) at time t, dataSource.ts:76-111
updateData(c, wildfire, t) ==
    IF isFetching[c] THEN skipped(c) ELSE proceed(c, wildfire, t)

\* the merge that keeps the asked interval instead of the union
mergedAskedOnly(c, k, newData) ==
    [data |-> IF k.fullFetchNeeded THEN sort(newData) ELSE sort(data[c] \o newData),
     dataPeriod |-> [from |-> k.from, to |-> k.to]]

\* the merge that appends what was fetched and does not sort
mergedUnsorted(c, k, newData) ==
    [data |-> IF k.fullFetchNeeded THEN newData ELSE data[c] \o newData,
     dataPeriod |->
        [from |-> IF dataPeriod[c].from # Null THEN Min(dataPeriod[c].from, k.from)
                  ELSE k.from,
         to |-> IF dataPeriod[c].to # Null THEN Max(dataPeriod[c].to, k.to) ELSE k.to]]

\* the merge that leaves the interval as it was
mergedPeriodKept(c, k, newData) ==
    [data |-> IF k.fullFetchNeeded THEN sort(newData) ELSE sort(data[c] \o newData),
     dataPeriod |-> dataPeriod[c]]

\* the merge that drops a fetched event the cache already holds
mergedDeduplicated(c, k, newData) ==
    [data |-> IF k.fullFetchNeeded THEN sort(newData)
              ELSE sort(data[c] \o SelectSeq(newData, LAMBDA e : e \notin Range(data[c]))),
     dataPeriod |->
        [from |-> IF dataPeriod[c].from # Null THEN Min(dataPeriod[c].from, k.from)
                  ELSE k.from,
         to |-> IF dataPeriod[c].to # Null THEN Max(dataPeriod[c].to, k.to) ELSE k.to]]

\* the merge that keeps only what was fetched, changed config or not
mergedAlwaysReplaces(c, k, newData) ==
    [data |-> sort(newData),
     dataPeriod |->
        [from |-> IF dataPeriod[c].from # Null THEN Min(dataPeriod[c].from, k.from)
                  ELSE k.from,
         to |-> IF dataPeriod[c].to # Null THEN Max(dataPeriod[c].to, k.to) ELSE k.to]]

\* dataSource.ts:112-122: the fields after fetchInterval resolved to newData in
\* the updateData whose locals are k
merged(c, k, newData) ==
    [data |-> IF k.fullFetchNeeded THEN sort(newData) ELSE sort(data[c] \o newData),
     dataPeriod |->
        [from |-> IF dataPeriod[c].from # Null THEN Min(dataPeriod[c].from, k.from)
                  ELSE k.from,
         to |-> IF dataPeriod[c].to # Null THEN Max(dataPeriod[c].to, k.to) ELSE k.to]]

\* getData that leaves out the events dated exactly at the end of the range
getDataBeforeEnd(c, from, to) ==
    SelectSeq(data[c], LAMBDA event : event.timestamp * 1000 >= from
                                      /\ event.timestamp * 1000 < to)

\* getData that returns nothing while a fetch is in progress
getDataWhenIdle(c, from, to) ==
    IF isFetching[c] THEN <<>>
    ELSE SelectSeq(data[c], LAMBDA event : event.timestamp * 1000 >= from
                                           /\ event.timestamp * 1000 <= to)

\* dataSource.ts:136-148
getData(c, from, to) ==
    SelectSeq(data[c], LAMBDA event : event.timestamp * 1000 >= from
                                      /\ event.timestamp * 1000 <= to)
getCurrentInterval(c) == [from |-> dataPeriod[c].from, to |-> dataPeriod[c].to]

----------------------------------------------------------------------------
(* Start-up: init(), index.ts:69-75 *)

noFields(c) == [data |-> <<>>, dataPeriod |-> noPeriod, meta |-> undefinedMeta(c[2])]
fields(c) == [data |-> data[c], dataPeriod |-> dataPeriod[c], meta |-> meta[c]]
noRegistry == [e \in Entities |-> [registered |-> FALSE, sources |-> {}]]
\* the DataSource objects there are
Objects == DOMAIN data
none == [c \in {} |-> 0]
noCall == [call |-> "none", changed |-> FALSE]
noCalls == [c \in Objects |-> noCall]
noConfigs ==
    [e \in Entities |-> [valid |-> FALSE, hasDataSources |-> FALSE, dataSources |-> <<>>]]
\* Of the configs a tick keeps in wildfireConfigs, the GET handler reads whether
\* the entity is there and its dataSources.  (It also reads start, as the
\* default of a query without "from"; queries here always say their range.)
kept(configs) ==
    [e \in Entities |->
        IF configs[e].valid /\ configs[e].hasDataSources
        THEN [valid |-> TRUE, hasDataSources |-> TRUE,
              dataSources |-> configs[e].dataSources]
        ELSE [valid |-> configs[e].valid, hasDataSources |-> FALSE,
              dataSources |-> <<>>]]

\* no request was served
noRequest == [id |-> "", only |-> <<>>, from |-> 0, to |-> 0]
noResponse == [status |-> 0, invalid |-> <<>>, parts |-> <<>>, events |-> <<>>,
               recency |-> <<>>]
NoExchange == request' = noRequest /\ response' = noResponse

\* the caches a set of configs asks for: valid config, implemented source
Due(configs) ==
    {c \in Caches : /\ configs[c[1]].valid
                    /\ c[2] \in Range(configs[c[1]].dataSources)}

\* a promise rejected with nobody awaiting it: the runtime either only warns
\* or ends the process (the default since Node 15).  who is the promise, the
\* function that threw and the error.
Unhandled(who, running) ==
    /\ rejections' = {who}
    /\ proc' \in {running, "crashed"}

\* constructing the caches of entity e throws: the config has no dataSources to
\* iterate, or the snapshot of one of its sources does not load
ConstructionThrows(configs, e) ==
    /\ configs[e].valid
    /\ \/ ~configs[e].hasDataSources
       \/ \E i \in 1..Len(configs[e].dataSources) :
             /\ configs[e].dataSources[i] \in dataSources
             /\ load(<<e, configs[e].dataSources[i]>>).threw

\* the entities a loop over the configs gets through: all before the first throw
Before(throwing) ==
    {e \in Entities : \A i \in 1..IndexOf(e) : EntityOrder[i] \notin throwing}

\* where the loop ends
First(throwing) ==
    CHOOSE e \in throwing : \A i \in 1..(IndexOf(e) - 1) : EntityOrder[i] \notin throwing

\* the caches initDataSources constructs and registers
Made(configs) ==
    LET reached == Before({e \in Entities : ConstructionThrows(configs, e)}) IN
    {c \in Caches : /\ c[1] \in reached
                    /\ configs[c[1]].valid
                    /\ c[2] \in Range(configs[c[1]].dataSources)}

\* initDataSources, index.ts:37-52.  Nothing catches a throwing constructor:
\* the loops end there and init() rejects before its first updateData().
\* configs is what loadWildfireConfigs finds in the files; the files are read
\* here and by every tick, so they change in the step that first reads them anew.
InitDataSources(configs) ==
    /\ proc = "boot"
    /\ LET throwing == {e \in Entities : ConstructionThrows(configs, e)}
           made == Made(configs)
           new == [c \in made |-> Constructed(c, configs[c[1]])]
       IN  /\ wildfires' = [e \in Entities |->
                 [registered |-> e \in Before(throwing) /\ configs[e].valid,
                  sources |-> {f \in dataSources : <<e, f>> \in made}]]
           /\ data' = [c \in made |-> new[c].data]
           /\ dataPeriod' = [c \in made |-> new[c].dataPeriod]
           /\ meta' = [c \in made |-> new[c].meta]
           /\ isFetching' = [c \in made |-> FALSE]
           /\ fetches' = [c \in made |-> <<>>]
           /\ lastCall' = [c \in made |-> noCall]
           /\ pre' = [c \in made |-> noFields(c)]
           /\ replaceDue' = [c \in made |-> FALSE]
           /\ IF throwing # {}
              THEN LET first == First(throwing)
                   IN  Unhandled(<<"init", "initDataSources",
                                   IF configs[first].hasDataSources THEN "SyntaxError"
                                   ELSE "TypeError">>, "stalled")
              ELSE proc' = "initialized" /\ rejections' = {}
    /\ due' = Due(configs)
    /\ invoked' = {}
    /\ settled' = {}
    /\ NoExchange
    /\ UNCHANGED <<now, disk, writable, wildfireConfigs>>

----------------------------------------------------------------------------
(* The tick: updateData of index.ts:55-67 *)

\* the loop throws at entity e: e has caches and its config has no dataSources
\* to call includes() on
TickThrows(configs, e) ==
    /\ configs[e].valid
    /\ wildfires[e].registered
    /\ wildfires[e].sources # {}
    /\ ~configs[e].hasDataSources

\* the loop as it would be if it awaited each updateData: while a fetch is
\* awaited it gets no further than the cache that awaits it
CalledAwaiting(configs) ==
    LET reached == Before({e \in Entities : TickThrows(configs, e)}) IN
    {c \in Objects : /\ c[1] \in reached
                     /\ configs[c[1]].valid
                     /\ c[2] \in Range(configs[c[1]].dataSources)
                     /\ (\E b \in Objects : isFetching[b]) => isFetching[c]}

\* the loop without the test of index.ts:61: every cache of the registry
CalledWholeRegistry(configs) ==
    LET reached == Before({e \in Entities : TickThrows(configs, e)}) IN
    {c \in Objects : c[1] \in reached /\ configs[c[1]].valid}

\* the caches whose updateData the loop calls.  The calls are not awaited, so
\* each runs its synchronous part and the loop goes on.
Called(configs) ==
    LET reached == Before({e \in Entities : TickThrows(configs, e)}) IN
    {c \in Objects : /\ c[1] \in reached
                     /\ configs[c[1]].valid
                     /\ c[2] \in Range(configs[c[1]].dataSources)}

\* configs is what loadWildfireConfigs finds in the files, t the time
Tick(configs, t, who, thrown) ==
    LET called == Called(configs)
        u(c) == updateData(c, configs[c[1]], t)
    IN  /\ t >= now
        /\ now' = t
        /\ wildfireConfigs' = kept(configs)
        /\ meta' = [c \in Objects |-> IF c \in called THEN u(c).meta ELSE meta[c]]
        /\ dataPeriod' = [c \in Objects |->
              IF c \in called THEN u(c).dataPeriod ELSE dataPeriod[c]]
        /\ isFetching' = [c \in Objects |->
              IF c \in called THEN u(c).isFetching ELSE isFetching[c]]
        /\ fetches' = [c \in Objects |->
              IF c \in called THEN u(c).fetches ELSE fetches[c]]
        /\ due' = Due(configs)
        /\ invoked' = called
        /\ lastCall' = [c \in Objects |->
              IF c \in called
              THEN [call |-> u(c).call,
                    changed |-> isFullFetchNeeded(c[2], meta[c], configs[c[1]])]
              ELSE noCall]
        /\ settled' = {}
        /\ pre' = [c \in Objects |->
              IF c \in called /\ u(c).call = "fetch" THEN fields(c) ELSE pre[c]]
        /\ replaceDue' = [c \in Objects |->
              replaceDue[c] \/ (c \in called /\ u(c).fullFetchNeeded)]
        /\ IF \E e \in Entities : TickThrows(configs, e)
           THEN Unhandled(who, thrown)
           ELSE proc' = "ticking" /\ rejections' = {}
        /\ NoExchange
        /\ UNCHANGED <<disk, writable, wildfires, data>>

\* init(): await updateData(), then setInterval.  A first tick that throws
\* rejects init() and the timer is never set.
FirstTick(configs, t) ==
    /\ proc = "initialized"
    /\ Tick(configs, t, <<"init", "updateData", "TypeError">>, "stalled")

\* the timer calls updateData every minute, whatever earlier ticks left pending
TimerTick(configs, t) ==
    /\ proc = "ticking"
    /\ Tick(configs, t, <<"timer", "updateData", "TypeError">>, "ticking")

----------------------------------------------------------------------------
(* The awaited fetchInterval settles: dataSource.ts:111-129 *)

Running == proc \in {"ticking", "stalled"}

\* it resolves to newData, and a failed write in save() is thrown on: the
\* finally clears the flag and the promise nobody awaits rejects
FetchResolvesSaveThrows(c, i, newData) ==
    /\ Running
    /\ i \in 1..Len(fetches[c])
    /\ LET new == merged(c, fetches[c][i], newData)
       IN  /\ Len(new.data) <= MaxEvents
           /\ data' = [data EXCEPT ![c] = new.data]
           /\ dataPeriod' = [dataPeriod EXCEPT ![c] = new.dataPeriod]
           /\ disk' = IF writable
                      THEN [disk EXCEPT ![c] = snapshot(c, new.data, new.dataPeriod, meta[c])]
                      ELSE disk
    /\ isFetching' = [isFetching EXCEPT ![c] = FALSE]
    /\ fetches' = [fetches EXCEPT ![c] = RemoveAt(@, i)]
    /\ due' = {}
    /\ invoked' = {}
    /\ lastCall' = noCalls
    /\ settled' = {[cache |-> c, how |-> "resolved", newData |-> newData,
                    locals |-> fetches[c][i],
                    pre |-> pre[c], replaceDue |-> replaceDue[c]]}
    /\ IF writable THEN rejections' = {} /\ proc' = proc
       ELSE Unhandled(<<c[1], c[2], "save failed">>, proc)
    /\ pre' = [pre EXCEPT ![c] = noFields(c)]
    /\ replaceDue' = [replaceDue EXCEPT ![c] = FALSE]
    /\ NoExchange
    /\ UNCHANGED <<now, writable, wildfires, wildfireConfigs, meta>>

\* it resolves to newData; save() logs a failed write and goes on
FetchResolves(c, i, newData) ==
    /\ Running
    /\ i \in 1..Len(fetches[c])
    /\ LET k == fetches[c][i]
           new == merged(c, k, newData)
       IN  /\ Len(new.data) <= MaxEvents
           /\ data' = [data EXCEPT ![c] = new.data]
           /\ dataPeriod' = [dataPeriod EXCEPT ![c] = new.dataPeriod]
           /\ disk' = IF writable
                      THEN [disk EXCEPT ![c] = snapshot(c, new.data, new.dataPeriod, meta[c])]
                      ELSE disk
    /\ isFetching' = [isFetching EXCEPT ![c] = FALSE]
    /\ fetches' = [fetches EXCEPT ![c] = RemoveAt(@, i)]
    /\ due' = {}
    /\ invoked' = {}
    /\ lastCall' = noCalls
    /\ settled' = {[cache |-> c, how |-> "resolved", newData |-> newData,
                    locals |-> fetches[c][i],
                    pre |-> pre[c], replaceDue |-> replaceDue[c]]}
    /\ rejections' = {}
    /\ pre' = [pre EXCEPT ![c] = noFields(c)]
    /\ replaceDue' = [replaceDue EXCEPT ![c] = FALSE]
    /\ NoExchange
    /\ UNCHANGED <<now, writable, process, meta>>

\* it rejects, and updateData has no finally: the flag stays set
FetchRejectsFlagKept(c, i) ==
    /\ Running
    /\ i \in 1..Len(fetches[c])
    /\ fetches' = [fetches EXCEPT ![c] = RemoveAt(@, i)]
    /\ Unhandled(<<c[1], c[2], "fetch failed">>, proc)
    /\ due' = {}
    /\ invoked' = {}
    /\ lastCall' = noCalls
    /\ settled' = {[cache |-> c, how |-> "rejected", newData |-> <<>>,
                    locals |-> fetches[c][i],
                    pre |-> pre[c], replaceDue |-> replaceDue[c]]}
    /\ pre' = [pre EXCEPT ![c] = noFields(c)]
    /\ NoExchange
    /\ UNCHANGED <<env, wildfires, wildfireConfigs, data, dataPeriod, meta, isFetching,
                   replaceDue>>

\* it rejects (Announcements and FlightPings re-throw what their upstream
\* throws): updateData logs, re-throws and clears the flag; the promise
\* updateData returned to the tick rejects, and the tick attached nothing to it
FetchRejects(c, i) ==
    /\ Running
    /\ i \in 1..Len(fetches[c])
    /\ isFetching' = [isFetching EXCEPT ![c] = FALSE]
    /\ fetches' = [fetches EXCEPT ![c] = RemoveAt(@, i)]
    /\ Unhandled(<<c[1], c[2], "fetch failed">>, proc)
    /\ due' = {}
    /\ invoked' = {}
    /\ lastCall' = noCalls
    /\ settled' = {[cache |-> c, how |-> "rejected", newData |-> <<>>,
                    locals |-> fetches[c][i],
                    pre |-> pre[c], replaceDue |-> replaceDue[c]]}
    /\ pre' = [pre EXCEPT ![c] = noFields(c)]
    /\ NoExchange
    /\ UNCHANGED <<env, wildfires, wildfireConfigs, data, dataPeriod, meta, replaceDue>>

----------------------------------------------------------------------------
(* Environment *)

\* the process ends (or has crashed) and is started again: the files stay
Restart ==
    /\ proc # "boot"
    /\ proc' = "boot"
    /\ wildfires' = noRegistry
    /\ wildfireConfigs' = noConfigs
    /\ data' = none
    /\ dataPeriod' = none
    /\ meta' = none
    /\ isFetching' = none
    /\ fetches' = none
    /\ due' = {}
    /\ invoked' = {}
    /\ lastCall' = none
    /\ settled' = {}
    /\ rejections' = {}
    /\ pre' = none
    /\ replaceDue' = none
    /\ NoExchange
    /\ UNCHANGED env

Started ==
    /\ now = 0
    /\ proc = "boot"
    /\ wildfires = noRegistry
    /\ wildfireConfigs = noConfigs
    /\ data = none
    /\ dataPeriod = none
    /\ meta = none
    /\ isFetching = none
    /\ fetches = none
    /\ due = {}
    /\ invoked = {}
    /\ lastCall = none
    /\ settled = {}
    /\ rejections = {}
    /\ pre = none
    /\ replaceDue = none

Boot ==
    /\ Started
    /\ request = noRequest
    /\ response = noResponse

----------------------------------------------------------------------------
(* GET /wildfires/:id, index.ts:85-172 *)

\* index.ts:85-108: on equal timestamps the element of b goes first
\* the merge without the two loops that add what remains of a and of b
RECURSIVE mergeSortedEventsNoRest(_, _)
mergeSortedEventsNoRest(a, b) ==
    IF a = <<>> \/ b = <<>> THEN <<>>
    ELSE IF Head(a).timestamp > Head(b).timestamp
    THEN <<Head(a)>> \o mergeSortedEventsNoRest(Tail(a), b)
    ELSE <<Head(b)>> \o mergeSortedEventsNoRest(a, Tail(b))

\* the merge that takes from a when the two dates are equal
RECURSIVE mergeSortedEventsFirstWins(_, _)
mergeSortedEventsFirstWins(a, b) ==
    IF a = <<>> THEN b
    ELSE IF b = <<>> THEN a
    ELSE IF Head(a).timestamp >= Head(b).timestamp
    THEN <<Head(a)>> \o mergeSortedEventsFirstWins(Tail(a), b)
    ELSE <<Head(b)>> \o mergeSortedEventsFirstWins(a, Tail(b))

RECURSIVE mergeSortedEvents(_, _)
mergeSortedEvents(a, b) ==
    IF a = <<>> THEN b
    ELSE IF b = <<>> THEN a
    ELSE IF Head(a).timestamp > Head(b).timestamp
    THEN <<Head(a)>> \o mergeSortedEvents(Tail(a), b)
    ELSE <<Head(b)>> \o mergeSortedEvents(a, Tail(b))

\* index.ts:155-163: events starts empty and takes each source's events in turn
\* the fold that merges only the last two lists
collectLastTwo(parts) ==
    IF Len(parts) < 2 THEN mergeSortedEvents(<<>>, IF parts = <<>> THEN <<>> ELSE parts[1])
    ELSE mergeSortedEvents(parts[Len(parts) - 1], parts[Len(parts)])

RECURSIVE collect(_)
collect(parts) ==
    IF parts = <<>> THEN <<>>
    ELSE mergeSortedEvents(collect(SubSeq(parts, 1, Len(parts) - 1)), parts[Len(parts)])

\* the keys of a wildfire's Map of caches, in insertion order: the order of
\* the config's dataSources at start-up, and every config here that lists
\* both sources lists fires first
entries(id) == SelectSeq(<<"fires", "metars">>, LAMBDA f : f \in wildfires[id].sources)

\* the sources the loop of index.ts:157-165 reads.  only = <<>> is a request
\* without "only" (or with an empty one).
selected(id, only) ==
    SelectSeq(entries(id),
              LAMBDA f : /\ f \in Range(wildfireConfigs[id].dataSources)
                         /\ (only = <<>> \/ f \in Range(only)))

\* index.ts:140-147
invalidSources(id, only) == SelectSeq(only, LAMBDA s : s \notin wildfires[id].sources)

\* the loop calls includes() on the config's dataSources for every cache
handlerThrows(id, only) ==
    /\ wildfires[id].registered
    /\ wildfireConfigs[id].valid
    /\ invalidSources(id, only) = <<>>
    /\ entries(id) # <<>>
    /\ ~wildfireConfigs[id].hasDataSources

\* what the handler sends when it does not throw
answer(id, only, from, to) ==
    IF ~wildfires[id].registered \/ ~wildfireConfigs[id].valid
    THEN [noResponse EXCEPT !.status = 404]
    ELSE IF invalidSources(id, only) # <<>>
    THEN [noResponse EXCEPT !.status = 400, !.invalid = invalidSources(id, only)]
    ELSE LET sel == selected(id, only)
             parts == [i \in 1..Len(sel) |-> getData(<<id, sel[i]>>, from, to)]
         IN  [status |-> 200, invalid |-> <<>>, parts |-> parts,
              events |-> collect(parts),
              recency |-> [f \in Range(sel) |-> getCurrentInterval(<<id, f>>)]]

\* The handler is async and nothing awaits it: when it throws, Express 4 leaves
\* the request unanswered and the rejection unhandled, Express 5 answers 500.
Get(id, only, from, to) ==
    /\ proc # "crashed"
    /\ request' = [id |-> id, only |-> only, from |-> from, to |-> to]
    /\ IF handlerThrows(id, only)
       THEN \/ /\ response' = [noResponse EXCEPT !.status = 500]
               /\ rejections' = {}
               /\ proc' = proc
            \/ /\ response' = noResponse
               /\ Unhandled(<<"GET", id, "TypeError">>, proc)
       ELSE /\ response' = answer(id, only, from, to)
            /\ rejections' = {}
            /\ proc' = proc
    /\ due' = {}
    /\ invoked' = {}
    /\ lastCall' = noCalls
    /\ settled' = {}
    /\ UNCHANGED <<env, wildfires, wildfireConfigs, cache, pre, replaceDue>>

\* index.ts:158: the handler has called getData for the source whose part is
\* the last of response.parts, and its continuation waits in the microtask
\* queue
awaiting == request # noRequest /\ response.status = 0 /\ response.parts # <<>>

\* an await of the handler that lets timers and I/O callbacks run
turnEndedAtAwait == TRUE

\* dataSource.ts:136-144: getData awaits nothing, its promise is resolved when
\* the handler awaits it (index.ts:158), and the continuation is a microtask
\* of the turn the request arrived in.  Node runs a timer or an I/O callback
\* (the tick, a settled fetch, the next request) only when no microtask waits.
turnEnded == ~awaiting

\* index.ts:121-158: the handler up to its first await
GetCalled(id, only, from, to) ==
    /\ proc # "crashed"
    /\ request' = [id |-> id, only |-> only, from |-> from, to |-> to]
    /\ IF handlerThrows(id, only)
       THEN \/ /\ response' = [noResponse EXCEPT !.status = 500]
               /\ rejections' = {}
               /\ proc' = proc
            \/ /\ response' = noResponse
               /\ Unhandled(<<"GET", id, "TypeError">>, proc)
       ELSE /\ response' =
                  IF answer(id, only, from, to).status = 200 /\ selected(id, only) # <<>>
                  THEN [noResponse EXCEPT
                           !.parts = <<getData(<<id, selected(id, only)[1]>>, from, to)>>]
                  ELSE answer(id, only, from, to)
            /\ rejections' = {}
            /\ proc' = proc
    /\ due' = {}
    /\ invoked' = {}
    /\ lastCall' = noCalls
    /\ settled' = {}
    /\ UNCHANGED <<env, wildfires, wildfireConfigs, cache, pre, replaceDue>>

\* index.ts:158-171: the continuation of the await merges the part, reads the
\* interval, and goes on to the next source's getData or to res.json
GetResumed ==
    /\ proc # "crashed"
    /\ awaiting
    /\ LET sel == selected(request.id, request.only)
           j == Len(response.parts)
           events == mergeSortedEvents(response.events, response.parts[j])
           recency == [f \in DOMAIN response.recency \cup {sel[j]} |->
                          IF f = sel[j] THEN getCurrentInterval(<<request.id, sel[j]>>)
                          ELSE response.recency[f]]
       IN  response' =
              IF j < Len(sel)
              THEN [response EXCEPT
                       !.parts = Append(@, getData(<<request.id, sel[j + 1]>>,
                                                   request.from, request.to)),
                       !.events = events, !.recency = recency]
              ELSE [response EXCEPT !.status = 200, !.events = events,
                                    !.recency = recency]
    /\ request' = request
    /\ rejections' = {}
    /\ due' = {}
    /\ invoked' = {}
    /\ lastCall' = noCalls
    /\ settled' = {}
    /\ UNCHANGED <<env, process, cache, pre, replaceDue>>

----------------------------------------------------------------------------
(* Spec: the whole service, two wildfires with two sources each.  The config *)
(* files come and go, lose their dataSources and name a source nobody        *)
(* implements; snapshots found at start may be unreadable.                   *)

ServiceConfigs ==
    {NoFile, [Wildfire(0, "LGAV", 0, NoEnd, <<>>) EXCEPT !.hasDataSources = FALSE],
     Wildfire(0, "LGAV", 0, NoEnd, <<"fires", "metars">>),
     Wildfire(0, "LGAV", 0, NoEnd, <<"metars", "smoke">>)}
ServiceFiles == [Entities -> ServiceConfigs]
ServiceClock == {0}

ServiceResults(c) == SeqsUpTo({e \in Upstream(c[2], meta[c]) : e.timestamp = 0}, 1)

Init ==
    /\ Boot
    /\ writable = TRUE
    /\ \E unreadable \in {{}} \cup {{c} : c \in Entities \X {"fires"}} :
          disk = [c \in Caches |-> IF c \in unreadable THEN corruptSnapshot(c[2])
                                   ELSE noSnapshot(c[2])]

Next ==
    \/ \E configs \in ServiceFiles : InitDataSources(configs)
    \/ \E configs \in ServiceFiles, t \in ServiceClock : FirstTick(configs, t)
    \/ \E configs \in ServiceFiles, t \in ServiceClock : TimerTick(configs, t)
    \/ \E c \in Objects : \E i \in 1..Len(fetches[c]) :
          \E newData \in ServiceResults(c) : FetchResolves(c, i, newData)
    \/ \E c \in Objects : \E i \in 1..Len(fetches[c]) : FetchRejects(c, i)

Spec == Init /\ [][Next]_vars

----------------------------------------------------------------------------
(* CacheSpec: one cache in detail.  One wildfire with one source; its place, *)
(* station and period change between ticks, and fetches return any events.   *)

CacheConfigs(f) ==
    {Wildfire(b, a, s, e, <<f>>) :
        b \in (IF f = "fires" THEN Coordinate ELSE {0}),
        a \in (IF f = "metars" THEN Airports ELSE {"LGAV"}),
        s \in StartChoices, e \in EndChoices}

CacheResults(c) == SeqsUpTo(Upstream(c[2], meta[c]), MaxFetch)

CacheInit ==
    /\ Boot
    /\ writable = TRUE
    /\ disk = [c \in Caches |-> noSnapshot(c[2])]

\* the files: w1 with the one source, its place and period as somebody last
\* wrote them
CacheFiles ==
    {[e \in Entities |-> IF e = "w1" THEN wildfire ELSE NoFile] :
        wildfire \in CacheConfigs("fires")}

CacheNext ==
    \/ \E configs \in CacheFiles : InitDataSources(configs)
    \/ \E configs \in CacheFiles, t \in Clock : FirstTick(configs, t)
    \/ \E configs \in CacheFiles, t \in Clock : TimerTick(configs, t)
    \/ \E c \in Objects : \E i \in 1..Len(fetches[c]) :
          \E newData \in CacheResults(c) : FetchResolves(c, i, newData)
    \/ \E c \in Objects : \E i \in 1..Len(fetches[c]) : FetchRejects(c, i)

CacheSpec == CacheInit /\ [][CacheNext]_vars

----------------------------------------------------------------------------
(* RestartSpec: one cache across restarts of the process.  The wildfire is   *)
(* live; its source, place and station are as somebody last wrote them, and  *)
(* the data directory may be read-only.                                      *)

RestartFiles ==
    {[e \in Entities |-> IF e = "w1" THEN wildfire ELSE NoFile] :
        wildfire \in {w \in CacheConfigs("fires") \cup CacheConfigs("metars") :
                         w.start = 0 /\ w.end = NoEnd}}

RestartInit ==
    /\ Boot
    /\ writable \in BOOLEAN
    /\ disk = [c \in Caches |-> noSnapshot(c[2])]

RestartClock == {0, MaxNow * StepMs}

RestartNext ==
    \/ \E configs \in RestartFiles : InitDataSources(configs)
    \/ \E configs \in RestartFiles, t \in RestartClock : FirstTick(configs, t)
    \/ \E configs \in RestartFiles, t \in RestartClock : TimerTick(configs, t)
    \/ \E c \in Objects : \E i \in 1..Len(fetches[c]) :
          \E newData \in ServiceResults(c) : FetchResolves(c, i, newData)
    \/ \E c \in Objects : \E i \in 1..Len(fetches[c]) : FetchRejects(c, i)
    \/ Restart

RestartSpec == RestartInit /\ [][RestartNext]_vars

----------------------------------------------------------------------------
(* QuerySpec: one wildfire with both sources, and the requests it serves.   *)
(* Its config loses a source or its dataSources between ticks; requests     *)
(* name the wildfire or one nobody configured, with and without "only".     *)

QueryConfigs ==
    {Wildfire(0, "LGAV", 0, NoEnd, <<"fires", "metars">>),
     Wildfire(0, "LGAV", 0, NoEnd, <<"metars", "smoke">>),
     [Wildfire(0, "LGAV", 0, NoEnd, <<>>) EXCEPT !.hasDataSources = FALSE]}
QueryFiles ==
    {[e \in Entities |-> IF e = "w1" THEN wildfire ELSE NoFile] : wildfire \in QueryConfigs}

QueryOnly == {<<>>, <<"fires">>, <<"metars">>, <<"fires", "smoke">>}
QueryFrom == {0, StepMs}
QueryTo == {0, MaxNow * StepMs}

QueryInit ==
    /\ Boot
    /\ writable = TRUE
    /\ disk = [c \in Caches |-> noSnapshot(c[2])]

QueryNext ==
    \/ \E configs \in QueryFiles : InitDataSources(configs)
    \/ \E configs \in QueryFiles, t \in RestartClock : FirstTick(configs, t)
    \/ \E configs \in QueryFiles, t \in RestartClock : TimerTick(configs, t)
    \/ \E c \in Objects : \E i \in 1..Len(fetches[c]) :
          \E newData \in CacheResults(c) : FetchResolves(c, i, newData)
    \/ \E c \in Objects : \E i \in 1..Len(fetches[c]) : FetchRejects(c, i)
    \/ \E id \in Entities, only \in QueryOnly, from \in QueryFrom, to \in QueryTo :
          Get(id, only, from, to)

QuerySpec == QueryInit /\ [][QueryNext]_vars

----------------------------------------------------------------------------
(* RangedSpec: the one cache of CacheSpec behind an adapter that returns     *)
(* only events of the range it was asked for.                                *)

inRange(k, newData) ==
    \A n \in 1..Len(newData) :
       /\ newData[n].timestamp * 1000 >= k.fetchFrom
       /\ newData[n].timestamp * 1000 <= k.fetchTo
RangedResults(c, k) == {newData \in CacheResults(c) : inRange(k, newData)}

RangedNext ==
    \/ \E configs \in CacheFiles : InitDataSources(configs)
    \/ \E configs \in CacheFiles, t \in Clock : FirstTick(configs, t)
    \/ \E configs \in CacheFiles, t \in Clock : TimerTick(configs, t)
    \/ \E c \in Objects : \E i \in 1..Len(fetches[c]) :
          \E newData \in RangedResults(c, fetches[c][i]) : FetchResolves(c, i, newData)
    \/ \E c \in Objects : \E i \in 1..Len(fetches[c]) : FetchRejects(c, i)

RangedSpec == CacheInit /\ [][RangedNext]_vars

----------------------------------------------------------------------------
(* ReloadSpec: the one cache of CacheSpec across restarts of the process:    *)
(* its constructor loads what the last successful update saved.              *)

ReloadNext ==
    \/ \E configs \in CacheFiles : InitDataSources(configs)
    \/ \E configs \in CacheFiles, t \in Clock : FirstTick(configs, t)
    \/ \E configs \in CacheFiles, t \in Clock : TimerTick(configs, t)
    \/ \E c \in Objects : \E i \in 1..Len(fetches[c]) :
          \E newData \in CacheResults(c) : FetchResolves(c, i, newData)
    \/ \E c \in Objects : \E i \in 1..Len(fetches[c]) : FetchRejects(c, i)
    \/ Restart

ReloadSpec == CacheInit /\ [][ReloadNext]_vars

----------------------------------------------------------------------------
(* MergeSpec: mergeSortedEvents and the handler's fold on their own, applied *)
(* to lists of events, each most recent first, as getData returns them.      *)

MergeEvents == {Fire(t, b) : t \in Seconds, b \in Coordinate}
Sorted(n) ==
    {q \in SeqsUpTo(MergeEvents, n) :
        \A i \in 1..(Len(q) - 1) : q[i].timestamp >= q[i + 1].timestamp}
MergeInputs ==
    {<<a, b>> : a \in Sorted(MaxEvents), b \in Sorted(MaxEvents)}
        \cup {<<a, b, c>> : a \in Sorted(MaxEvents), b \in Sorted(MaxFetch),
                            c \in Sorted(MaxFetch)}
        \cup {<<a>> : a \in Sorted(MaxEvents)} \cup {<<>>}

MergeInit ==
    /\ Started
    /\ writable = TRUE
    /\ disk = [c \in Caches |-> noSnapshot(c[2])]
    /\ request = noRequest
    /\ \E parts \in MergeInputs : response = [noResponse EXCEPT !.parts = parts]

\* mergeSortedEvents(a, b) of two lists
Merge ==
    /\ proc = "boot"
    /\ Len(response.parts) = 2
    /\ proc' = "merged"
    /\ response' = [response EXCEPT
                       !.events = mergeSortedEvents(response.parts[1], response.parts[2])]
    /\ UNCHANGED <<env, wildfires, wildfireConfigs, cache, history, request>>

\* index.ts:155-163 of any number of lists
Collect ==
    /\ proc = "boot"
    /\ proc' = "collected"
    /\ response' = [response EXCEPT !.events = collect(response.parts)]
    /\ UNCHANGED <<env, wildfires, wildfireConfigs, cache, history, request>>

MergeNext == Merge \/ Collect

MergeSpec == MergeInit /\ [][MergeNext]_vars

----------------------------------------------------------------------------
(* ToleranceSpec: one fires cache that starts from a snapshot of the interval *)
(* ToleranceCovered; the config asks for an interval that goes beyond it at   *)
(* either side by exactly epsilon or by a millisecond more.                   *)

ToleranceCovered == [from |-> 2 * epsilon, to |-> 3 * epsilon]
ToleranceStarts == {ToleranceCovered.from - epsilon, ToleranceCovered.from - epsilon - 1}
ToleranceEnds == {ToleranceCovered.to + epsilon, ToleranceCovered.to + epsilon + 1}
ToleranceFiles ==
    {[e \in Entities |-> IF e = "w1" THEN Wildfire(b, "LGAV", st, en, <<"fires">>) ELSE NoFile] :
        b \in Coordinate, st \in ToleranceStarts, en \in ToleranceEnds}

ToleranceInit ==
    /\ Boot
    /\ writable = TRUE
    /\ disk = [c \in Caches |->
          IF c = <<"w1", "fires">>
          THEN snapshot(c, <<>>, ToleranceCovered, initFromWildfire("fires", Wildfire(0, "LGAV", 0, NoEnd, <<"fires">>)))
          ELSE noSnapshot(c[2])]

ToleranceNext ==
    \/ \E configs \in ToleranceFiles : InitDataSources(configs)
    \/ \E configs \in ToleranceFiles : FirstTick(configs, 0)
    \/ \E configs \in ToleranceFiles : TimerTick(configs, 0)
    \/ \E c \in Objects : \E i \in 1..Len(fetches[c]) :
          \E newData \in ServiceResults(c) : FetchResolves(c, i, newData)
    \/ \E c \in Objects : \E i \in 1..Len(fetches[c]) : FetchRejects(c, i)

ToleranceSpec == ToleranceInit /\ [][ToleranceNext]_vars

----------------------------------------------------------------------------
(* ExactSpec: the one cache of CacheSpec with its place fixed, so that no    *)
(* update replaces, behind an upstream that holds one fire, dated 0, and an  *)
(* adapter that never fails and returns each upstream event of the range it  *)
(* is asked for exactly once.                                                *)

ExactUpstream(c) == <<Fire(0, meta[c].bounds)>>
ExactResult(c, k) ==
    SelectSeq(ExactUpstream(c), LAMBDA e : /\ e.timestamp * 1000 >= k.fetchFrom
                                          /\ e.timestamp * 1000 <= k.fetchTo)
ExactFiles ==
    {[e \in Entities |-> IF e = "w1" THEN Wildfire(0, "LGAV", st, en, <<"fires">>) ELSE NoFile] :
        st \in StartChoices, en \in EndChoices}

ExactNext ==
    \/ \E configs \in ExactFiles : InitDataSources(configs)
    \/ \E configs \in ExactFiles, t \in Clock : FirstTick(configs, t)
    \/ \E configs \in ExactFiles, t \in Clock : TimerTick(configs, t)
    \/ \E c \in Objects : \E i \in 1..Len(fetches[c]) :
          FetchResolves(c, i, ExactResult(c, fetches[c][i]))

ExactSpec == CacheInit /\ [][ExactNext]_vars

----------------------------------------------------------------------------
(* AwaitSpec: the wildfire of QuerySpec with both of its sources, its place  *)
(* and its start changing between ticks, and the GET handler taken one await *)
(* at a time.                                                                *)

AwaitFiles ==
    {[e \in Entities |-> IF e = "w1" THEN Wildfire(b, "LGAV", 0, NoEnd, <<"fires", "metars">>)
                         ELSE NoFile] : b \in Coordinate}
AwaitOnly == {<<>>, <<"metars">>}
AwaitResults(c) == SeqsUpTo({e \in Upstream(c[2], meta[c]) : e.timestamp = 0}, MaxFetch)

AwaitNext ==
    \/ \E configs \in AwaitFiles : turnEnded /\ InitDataSources(configs)
    \/ \E configs \in AwaitFiles, t \in RestartClock : turnEnded /\ FirstTick(configs, t)
    \/ \E configs \in AwaitFiles, t \in RestartClock : turnEnded /\ TimerTick(configs, t)
    \/ \E c \in Objects : \E i \in 1..Len(fetches[c]) :
          \E newData \in AwaitResults(c) : turnEnded /\ FetchResolves(c, i, newData)
    \/ \E c \in Objects : \E i \in 1..Len(fetches[c]) : turnEnded /\ FetchRejects(c, i)
    \/ \E id \in Entities, only \in AwaitOnly, from \in QueryFrom, to \in QueryTo :
          turnEnded /\ GetCalled(id, only, from, to)
    \/ GetResumed

AwaitSpec == QueryInit /\ [][AwaitNext]_vars

----------------------------------------------------------------------------
(* What a read of a cache returns: every event the clock can have dated, and *)
(* the interval                                                              *)

Read(c) == <<getData(c, 0, 1000 * ((MaxNow * StepMs) \div 1000)), getCurrentInterval(c)>>

----------------------------------------------------------------------------
(* Properties *)

\* C1: after an update whose fetch failed, in merge mode or in replace mode,
\* the events, the interval and the adapter's fields of the cache are the ones
\* it held when the update was called.
C1_FailedFetchLeavesState ==
    \A s \in settled : s.how = "rejected" => fields(s.cache) = s.pre

\* C2: an update for which isFullFetchNeeded returned true leaves the interval
\* absent, and the next fetch of the cache that succeeds, whatever updates came
\* between, leaves exactly its own result, sorted, as the events.
C2_ChangeReplacesEvents ==
    /\ \A c \in invoked :
          (lastCall[c].changed /\ lastCall[c].call # "skipped") => dataPeriod[c] = noPeriod
    /\ \A s \in settled :
          (s.how = "resolved" /\ s.replaceDue) => data[s.cache] = sort(s.newData)

\* C3: while an update of a cache is in flight, a read of the cache returns
\* the events and the interval it held when the update was called.
C3_ReadDuringUpdateSeesOldPair ==
    \A c \in Objects : fetches[c] # <<>> => Read(c) = <<pre[c].data, pre[c].dataPeriod>>

\* C4: whatever ticks overlap, a cache has at most one fetchInterval call in
\* flight.
C4_OneFetchInFlight ==
    \A c \in Objects : Len(fetches[c]) <= 1

C4_TickDuringFetch ==
    \E c \in Objects : lastCall[c].call = "skipped" /\ Len(fetches[c]) = 1

\* C5: an update called while isFetching is true, with any config, starts no
\* fetch and leaves the events, the interval, the adapter's fields and
\* isFetching as they were.
C5_UpdateDuringFetchHasNoEffect ==
    [][\A c \in Objects :
          (isFetching[c] /\ c \in invoked') =>
             /\ lastCall'[c].call = "skipped"
             /\ fetches'[c] = fetches[c]
             /\ data'[c] = data[c]
             /\ dataPeriod'[c] = dataPeriod[c]
             /\ meta'[c] = meta[c]
             /\ isFetching'[c] = isFetching[c]]_vars

C5_SkippedWithChangedConfig ==
    \E c \in Objects : lastCall[c] = [call |-> "skipped", changed |-> TRUE]

\* C6: a cache constructed at start-up from a snapshot holds the selection
\* fields the snapshot's meta recorded.
C6_RestoredSelectionIsPersisted ==
    proc = "initialized" =>
       \A c \in Objects : disk[c].status = "ok" => getMeta(c[2], meta[c]) = disk[c].meta

\* C7: a cache constructed from a snapshot holds the events, the interval and
\* the adapter's fields of the cache that wrote it: saving it again would write
\* the same snapshot.
C7_SnapshotRoundTrip ==
    proc = "initialized" =>
       \A c \in Objects :
          disk[c].status = "ok" => snapshot(c, data[c], dataPeriod[c], meta[c]) = disk[c]

\* C8: a failed fetch reaches a handler and the process goes on: no promise is
\* rejected unhandled and the process has not ended.
C8_FetchFailureIsHandled ==
    \A s \in settled : s.how = "rejected" => (rejections = {} /\ proc # "crashed")

\* C9: a tick calls updateData on every cache that exists and that the configs
\* it read enable, whatever happened at the other entities and sources.
C9_TickCallsEveryEnabledCache ==
    (proc # "initialized" /\ \A r \in rejections : r[2] # "initDataSources")
        => (due \cap Objects) \subseteq invoked

\* C10: when a snapshot does not load, start-up goes on: every other cache the
\* configs ask for is constructed and init() gets to its first tick.
C10_UnreadableSnapshotIsLocal ==
    (proc = "initialized" \/ rejections = {<<"init", "initDataSources", "SyntaxError">>})
        => /\ rejections = {}
           /\ \A c \in due : disk[c].status # "corrupt" => c \in Objects

\* C11: a tick calls updateData for every source the configs it read enable,
\* also for the wildfires and sources enabled since the process started.
C11_TickCallsEveryEnabledSource ==
    (proc = "ticking" /\ rejections = {}) => due \subseteq invoked

\* C12: a request whose "only" names a source the wildfire's current config
\* (one that lists its dataSources) does not enable is answered 400, naming
\* exactly those names, with no events.
C12_OnlyMustBeEnabled ==
    (request # noRequest /\ wildfires[request.id].registered
                         /\ wildfireConfigs[request.id].hasDataSources) =>
       LET notEnabled ==
              SelectSeq(request.only,
                        LAMBDA n : n \notin Range(wildfireConfigs[request.id].dataSources))
       IN  notEnabled # <<>> =>
              /\ response.status = 400
              /\ response.invalid = notEnabled
              /\ response.events = <<>>

\* C13: from one state of a cache to the next the interval's from never
\* increases and its to never decreases; it only becomes absent in the step of
\* an update for which isFullFetchNeeded returned true.
C13_IntervalOnlyGrows ==
    [][\A c \in Objects \cap DOMAIN dataPeriod' :
          LET p == dataPeriod[c]
              q == dataPeriod'[c]
          IN  /\ (p.from # Null /\ q.from # Null) => q.from <= p.from
              /\ (p.to # Null /\ q.to # Null) => q.to >= p.to
              /\ (p # noPeriod /\ q = noPeriod) =>
                    (c \in invoked' /\ lastCall'[c] = [call |-> "fetch", changed |-> TRUE])
              /\ (q.from = Null) = (q.to = Null)]_vars

C13_IntervalGrew ==
    \E s \in settled :
       /\ s.how = "resolved" /\ ~s.replaceDue
       /\ s.pre.dataPeriod # noPeriod
       /\ dataPeriod[s.cache].from <= s.pre.dataPeriod.from
       /\ dataPeriod[s.cache].to > s.pre.dataPeriod.to

\* C14: behind an adapter that returns only events of the range it was asked
\* for, every event of a cache is dated inside the cache's interval, and a
\* cache without an interval has no events.
C14_EventsInsideInterval ==
    \A c \in Objects :
       IF dataPeriod[c] = noPeriod THEN data[c] = <<>>
       ELSE \A n \in 1..Len(data[c]) :
               /\ data[c][n].timestamp * 1000 >= dataPeriod[c].from
               /\ data[c][n].timestamp * 1000 <= dataPeriod[c].to

\* C15: in every state of a cache, newly constructed (from a snapshot or from
\* nothing) or after any updates, each event is dated no earlier than the
\* event that follows it.
C15_EventsSortedDescending ==
    \A c \in Objects : \A n \in 1..(Len(data[c]) - 1) :
       data[c][n].timestamp >= data[c][n + 1].timestamp

\* a cache constructed from a snapshot holds two events of different dates
C15_LoadedTwoDates ==
    \E c \in Objects :
       /\ proc = "initialized"
       /\ Len(data[c]) = 2
       /\ data[c][1].timestamp # data[c][2].timestamp

C17_MergeKeepsEverything ==
    [][\A s \in settled' :
          (s.how = "resolved" /\ ~s.locals.fullFetchNeeded) =>
             LET c == s.cache
                 k == s.locals
                 times(q, e) == Cardinality({n \in 1..Len(q) : q[n] = e})
             IN  /\ Len(data'[c]) = Len(data[c]) + Len(s.newData)
                 /\ \A e \in Range(data'[c]) \cup Range(data[c]) \cup Range(s.newData) :
                       times(data'[c], e) = times(data[c], e) + times(s.newData, e)
                 /\ \A n \in 1..(Len(data'[c]) - 1) :
                       data'[c][n].timestamp >= data'[c][n + 1].timestamp
                 /\ dataPeriod'[c] =
                       IF dataPeriod[c] = noPeriod THEN [from |-> k.from, to |-> k.to]
                       ELSE [from |-> Min(dataPeriod[c].from, k.from),
                             to |-> Max(dataPeriod[c].to, k.to)]]_vars

\* a merge of one fetched event into a cache that held that very event, for an
\* update that asked for a later start and a later end than the cache covered
C17_MergedDuplicate ==
    \E s \in settled :
       /\ s.how = "resolved" /\ ~s.locals.fullFetchNeeded
       /\ Len(s.pre.data) = 1 /\ s.newData = s.pre.data
       /\ Len(data[s.cache]) = 2
       /\ s.locals.from > s.pre.dataPeriod.from
       /\ s.pre.dataPeriod.from # Null
       /\ s.locals.to > s.pre.dataPeriod.to
       /\ dataPeriod[s.cache] = [from |-> s.pre.dataPeriod.from, to |-> s.locals.to]

\* C18: for lists a and b, each most recent first, mergeSortedEvents(a, b) has
\* as many events as a and b together, is most recent first, and is an
\* interleaving: some of its positions spell a in a's order, the others b in
\* b's order.
C18_MergeInterleaves ==
    proc = "merged" =>
       LET a == response.parts[1]
           b == response.parts[2]
           m == response.events
           at(P) == LET idx == SelectSeq([i \in 1..Len(m) |-> i], LAMBDA i : i \in P)
                    IN  [j \in 1..Len(idx) |-> m[idx[j]]]
       IN  /\ Len(m) = Len(a) + Len(b)
           /\ \A n \in 1..(Len(m) - 1) : m[n].timestamp >= m[n + 1].timestamp
           /\ \E P \in SUBSET (1..Len(m)) :
                 at(P) = a /\ at((1..Len(m)) \ P) = b

\* two lists of two events were merged, with a date they share
C18_MergedTies ==
    /\ proc = "merged"
    /\ Len(response.parts[1]) = 2 /\ Len(response.parts[2]) = 2
    /\ response.parts[1][1] # response.parts[1][2]
    /\ response.parts[1][2].timestamp = response.parts[2][1].timestamp
    /\ response.parts[1][1].timestamp > response.parts[2][2].timestamp
    /\ Len(response.events) = 4

\* C19: the events of a response, the fold of mergeSortedEvents over the lists
\* getData returned for the selected sources, are most recent first and hold
\* every event as often as the lists hold it together, however many lists.
C19_FoldIsSortedUnion ==
    (proc = "collected" \/ response.status = 200) =>
       LET parts == response.parts
           m == response.events
           times(q, e) == Cardinality({n \in 1..Len(q) : q[n] = e})
           RECURSIVE sum(_, _)
           sum(j, e) == IF j = 0 THEN 0 ELSE sum(j - 1, e) + times(parts[j], e)
       IN  /\ \A n \in 1..(Len(m) - 1) : m[n].timestamp >= m[n + 1].timestamp
           /\ \A e \in Range(m) \cup UNION {Range(parts[j]) : j \in 1..Len(parts)} :
                 times(m, e) = sum(Len(parts), e)

\* three lists were folded: the first spans two dates, the third has the later
\* one, and all of their four events are in the result
C19_FoldedThree ==
    /\ proc = "collected"
    /\ Len(response.parts) = 3
    /\ Len(response.parts[1]) = 2 /\ Len(response.parts[2]) = 1 /\ Len(response.parts[3]) = 1
    /\ response.parts[1][1].timestamp > response.parts[1][2].timestamp
    /\ response.parts[3][1].timestamp = response.parts[1][1].timestamp
    /\ Len(response.events) = 4

\* C20: what getData(from, to) returned for a source of an answered request is
\* the cache's events dated from <= t <= to (t in seconds, from and to in
\* milliseconds, both ends included) in the order the cache holds them, and
\* the request changed no field of any cache.
C20_GetDataFiltersInclusive ==
    [][(request' # noRequest /\ response'.status = 200) =>
          LET srcs == selected(request'.id, request'.only)
          IN  /\ cache' = cache
              /\ disk' = disk
              /\ Len(response'.parts) = Len(srcs)
              /\ \A j \in 1..Len(srcs) :
                    LET d == data[<<request'.id, srcs[j]>>]
                        idx == SelectSeq([n \in 1..Len(d) |-> n],
                                  LAMBDA n : /\ request'.from <= d[n].timestamp * 1000
                                             /\ d[n].timestamp * 1000 <= request'.to)
                    IN  response'.parts[j] = [i \in 1..Len(idx) |-> d[idx[i]]]]_vars

\* a request for the range [0, 0] of a cache with an event dated 0 and a later
\* one: the event at both ends of the range is returned, the later one is not
C20_EventAtBothEnds ==
    /\ response.status = 200
    /\ request.from = 0 /\ request.to = 0
    /\ \E j \in 1..Len(response.parts) :
          LET d == data[<<request.id, selected(request.id, request.only)[j]>>]
          IN  /\ Len(d) = 2
              /\ d[1].timestamp > 0
              /\ response.parts[j] = <<d[2]>>

\* C21: a request that reads a cache whose fetch is awaited is answered in
\* its own step, while the fetch is still awaited afterwards, with the events
\* the cache holds at that moment that are inside the asked range; and while
\* a fetch is awaited a request can always be served.
C21_ReadDoesNotWaitForFetch ==
    [][/\ (proc # "crashed" /\ \E c \in Objects : isFetching[c]) =>
             ENABLED (\E id \in Entities, only \in QueryOnly, from \in QueryFrom,
                         to \in QueryTo : Get(id, only, from, to))
       /\ (request' # noRequest /\ response'.status = 200) =>
             LET srcs == selected(request'.id, request'.only)
             IN  \A j \in 1..Len(srcs) :
                    LET c == <<request'.id, srcs[j]>> IN
                    isFetching[c] =>
                       /\ isFetching'[c] /\ fetches'[c] = fetches[c] /\ fetches[c] # <<>>
                       /\ data'[c] = data[c]
                       /\ Len(response'.parts) = Len(srcs)
                       /\ Range(response'.parts[j]) =
                             {e \in Range(data[c]) : /\ e.timestamp * 1000 >= request'.from
                                                     /\ e.timestamp * 1000 <= request'.to}
                       /\ Len(response'.parts[j]) =
                             Cardinality({n \in 1..Len(data[c]) :
                                             /\ data[c][n].timestamp * 1000 >= request'.from
                                             /\ data[c][n].timestamp * 1000 <= request'.to})]_vars

\* an answered request got an event from a cache whose fetch is awaited
C21_AnsweredDuringFetch ==
    /\ response.status = 200
    /\ \E j \in 1..Len(response.parts) :
          LET c == <<request.id, selected(request.id, request.only)[j]>>
          IN  isFetching[c] /\ fetches[c] # <<>> /\ response.parts[j] # <<>>

\* C22: while the fetch of one cache stays awaited, a tick's call of that
\* cache is skipped and adds no fetch; every other cache is called by a tick
\* that runs through whenever its config enables it, its call is skipped only
\* for a fetch of its own, and a fetch of its own can resolve.
C22_HangBlocksOnlyItsCache ==
    [][\A c \in Objects : isFetching[c] =>
          /\ c \in invoked' =>
                /\ lastCall'[c].call = "skipped"
                /\ fetches'[c] = fetches[c] /\ isFetching'[c]
          /\ (due' # {} /\ rejections' = {}) => (due' \cap Objects) \subseteq invoked'
          /\ \A o \in (Objects \cap invoked') \ {c} :
                (lastCall'[o].call = "skipped") = isFetching[o]
          /\ \A o \in Objects \ {c} :
                (Running /\ fetches[o] # <<>>) =>
                   ENABLED (\E newData \in ServiceResults(o) : FetchResolves(o, 1, newData))]_vars

\* a tick skipped a cache that awaits its fetch, started a fetch for the other
\* source of the same wildfire and called a cache of the other wildfire
C22_OthersCalledDuringHang ==
    \E c \in Objects \cap invoked :
       /\ lastCall[c].call = "skipped" /\ isFetching[c]
       /\ \E o \in Objects \cap invoked :
             o[1] = c[1] /\ o # c /\ lastCall[o].call = "fetch"
       /\ \E o \in Objects \cap invoked :
             o[1] # c[1] /\ lastCall[o].call \in {"fetch", "satisfied"}

C24_FailedSaveIsOnlyLogged ==
    [][\A s \in settled' :
          (s.how = "resolved" /\ ~writable) =>
             LET c == s.cache
                 k == s.locals
                 old == IF k.fullFetchNeeded THEN <<>> ELSE data[c]
                 times(q, e) == Cardinality({n \in 1..Len(q) : q[n] = e})
             IN  /\ rejections' = {} /\ proc' = proc
                 /\ ~isFetching'[c]
                 /\ Len(data'[c]) = Len(old) + Len(s.newData)
                 /\ \A e \in Range(data'[c]) \cup Range(old) \cup Range(s.newData) :
                       times(data'[c], e) = times(old, e) + times(s.newData, e)
                 /\ dataPeriod'[c].from # Null /\ dataPeriod'[c].from <= k.from
                 /\ dataPeriod'[c].to # Null /\ dataPeriod'[c].to >= k.to
                 /\ disk' = disk]_vars

\* an update fetched an event and could not write it: the cache holds it, the
\* snapshot does not
C24_SavedNothing ==
    \E s \in settled :
       /\ s.how = "resolved" /\ ~writable /\ s.newData # <<>>
       /\ data[s.cache] # <<>> /\ ~isFetching[s.cache]
       /\ disk[s.cache].status = "none"

\* C25: with every snapshot readable, whatever configs initDataSources finds
\* (invalid ones, ones without dataSources, ones that name a source nobody
\* implements), it constructs every cache the well-formed configs ask for and
\* start-up goes on to the first tick.
C25_BadConfigIsSkippedAtLoad ==
    ((proc = "initialized" \/ \E r \in rejections : r[2] = "initDataSources")
        /\ \A c \in Caches : disk[c].status # "corrupt")
        => /\ due \subseteq Objects
           /\ proc = "initialized"

\* C26: initDataSources constructs a cache that has no snapshot without an
\* error, with no events, no interval and no fetch awaited; and the first tick
\* makes such a cache call fetchInterval once, for the range from the config's
\* start to its end, or to the time of the call when it has no end.
C26_FreshCacheFetchesDesired ==
    [][/\ proc = "boot" =>
             /\ (\A c \in due' : disk[c].status = "none") =>
                   (proc' = "initialized" /\ rejections' = {} /\ due' \subseteq DOMAIN data')
             /\ \A c \in DOMAIN data' :
                   disk[c].status = "none" =>
                      /\ data'[c] = <<>> /\ dataPeriod'[c] = noPeriod
                      /\ ~isFetching'[c] /\ fetches'[c] = <<>>
       /\ \A configs \in CacheFiles, t \in Clock :
             FirstTick(configs, t) =>
                \A c \in invoked' :
                   (data[c] = <<>> /\ dataPeriod[c] = noPeriod) =>
                      /\ lastCall'[c].call = "fetch"
                      /\ isFetching'[c]
                      /\ Len(fetches'[c]) = 1
                      /\ fetches'[c][1].fetchFrom = configs[c[1]].start
                      /\ fetches'[c][1].fetchTo =
                            IF configs[c[1]].end # NoEnd THEN configs[c[1]].end ELSE t]_vars

\* the first tick, later than the start of a wildfire without an end, called a
\* cache that was constructed without a snapshot
C26_FirstUpdateOfFreshCache ==
    \E c \in Objects \cap invoked :
       /\ disk[c].status = "none"
       /\ pre[c].data = <<>> /\ pre[c].dataPeriod = noPeriod
       /\ Len(fetches[c]) = 1
       /\ fetches[c][1].fetchTo = now /\ now > fetches[c][1].fetchFrom

\* C27: isFetching of a cache is set exactly while one call of fetchInterval
\* of that cache is awaited; the step in which the fetch resolves or rejects
\* clears it; and a call that finds the interval already fetched leaves it
\* clear.
C27_FlagMeansOneFetchAwaited ==
    [][/\ \A c \in Objects : isFetching[c] = (Len(fetches[c]) = 1) /\ Len(fetches[c]) <= 1
       /\ \A c \in DOMAIN data' :
             isFetching'[c] = (Len(fetches'[c]) = 1) /\ Len(fetches'[c]) <= 1
       /\ \A s \in settled' :
             /\ isFetching[s.cache]
             /\ ~isFetching'[s.cache] /\ fetches'[s.cache] = <<>>
       /\ \A c \in Objects \cap invoked' :
             lastCall'[c].call = "satisfied" =>
                ~isFetching[c] /\ ~isFetching'[c] /\ fetches'[c] = <<>>]_vars

\* the fetch of a cache rejected, the process goes on, and the flag is clear
C27_ClearedAfterFailure ==
    \E s \in settled :
       s.how = "rejected" /\ proc # "crashed" /\ ~isFetching[s.cache]
          /\ fetches[s.cache] = <<>>

\* C28: a call of updateData that finds no change and calls fetchInterval asks
\* for the range from the earlier of the desired from (the config's start) and
\* the interval's from to the later of the desired to (the config's end, or
\* the time of the call) and the interval's to, which contains both; with no
\* interval it asks for exactly the desired from and to.
C28_FetchRangeIsUnion ==
    [][\A c \in Objects \cap invoked' :
          (lastCall'[c] = [call |-> "fetch", changed |-> FALSE]) =>
             LET k == fetches'[c][Len(fetches'[c])]
                 covered == dataPeriod[c]
             IN  /\ Len(fetches'[c]) = Len(fetches[c]) + 1
                 /\ k.to = now' \/ k.to \in EndChoices
                 /\ k.from \in StartChoices
                 /\ IF covered = noPeriod
                    THEN k.fetchFrom = k.from /\ k.fetchTo = k.to
                    ELSE /\ k.fetchFrom = Min(k.from, covered.from)
                         /\ k.fetchTo = Max(k.to, covered.to)
                         /\ k.fetchFrom <= k.from /\ k.fetchFrom <= covered.from
                         /\ k.fetchTo >= k.to /\ k.fetchTo >= covered.to]_vars

\* a merging fetch whose desired interval starts and ends later than the
\* interval the cache has: the range starts where the cache's interval does
C28_FetchReachesBack ==
    \E c \in Objects \cap invoked :
       /\ lastCall[c] = [call |-> "fetch", changed |-> FALSE]
       /\ dataPeriod[c] # noPeriod
       /\ LET k == fetches[c][Len(fetches[c])]
          IN  /\ k.fetchFrom = dataPeriod[c].from /\ k.fetchFrom < k.from
              /\ k.fetchTo = k.to /\ k.to > dataPeriod[c].to

\* C29: a call of updateData that finds no change, on a cache that has an
\* interval and awaits no fetch, calls fetchInterval if and only if the
\* config's start is more than epsilon before the interval's from or its end
\* more than epsilon after the interval's to; a call that does not fetch
\* leaves every field of the cache and its snapshot as they were.
C29_FetchOnlyBeyondTolerance ==
    [][\A configs \in ToleranceFiles :
          (FirstTick(configs, 0) \/ TimerTick(configs, 0)) =>
             \A c \in Objects \cap invoked' :
                (~lastCall'[c].changed /\ dataPeriod[c] # noPeriod /\ ~isFetching[c]) =>
                   LET beyond == \/ configs[c[1]].start < dataPeriod[c].from - 1000
                                 \/ configs[c[1]].end > dataPeriod[c].to + 1000
                   IN  /\ (lastCall'[c].call = "fetch") = beyond
                       /\ (lastCall'[c].call = "satisfied") = ~beyond
                       /\ ~beyond =>
                             /\ data'[c] = data[c] /\ dataPeriod'[c] = dataPeriod[c]
                             /\ meta'[c] = meta[c] /\ isFetching'[c] = isFetching[c]
                             /\ fetches'[c] = fetches[c] /\ disk' = disk]_vars

\* a call found the interval the snapshot gave the cache enough: with these
\* configs, a desired interval exactly epsilon wider at both sides
C29_SatisfiedAtTolerance ==
    \E c \in Objects \cap invoked :
       /\ lastCall[c] = [call |-> "satisfied", changed |-> FALSE]
       /\ dataPeriod[c] = ToleranceCovered
       /\ ~isFetching[c]

\* C30: in mergeSortedEvents(a, b) the events of one date are those of b, in
\* b's order, followed by those of a, in a's order: where both lists have an
\* event of the same date, b's comes before a's.
C30_SecondInputFirstOnTies ==
    proc = "merged" =>
       LET a == response.parts[1]
           b == response.parts[2]
           m == response.events
           dated(q, t) == SelectSeq(q, LAMBDA e : e.timestamp = t)
       IN  \A t \in Seconds : dated(m, t) = dated(b, t) \o dated(a, t)

\* the lists merged share a date on which they hold different events
C30_TieOfDifferentEvents ==
    /\ proc = "merged"
    /\ \E i \in 1..Len(response.parts[1]), j \in 1..Len(response.parts[2]) :
          /\ response.parts[1][i].timestamp = response.parts[2][j].timestamp
          /\ response.parts[1][i] # response.parts[2][j]
          /\ response.parts[2][j] \notin Range(response.parts[1])
          /\ response.parts[1][i] \notin Range(response.parts[2])

\* C31: behind an adapter that returns each upstream event of the asked range
\* exactly once, after any number of updates that succeeded and merged, no
\* event is in a cache more than once.
C31_NoEventTwice ==
    \A c \in Objects : \A i, j \in 1..Len(data[c]) : data[c][i] = data[c][j] => i = j

\* C32: when the fetch of an update has resolved, the interval of the cache
\* does not end after the time the fetch was issued, so not after the present
\* time either (the clock does not go back while the fetch is awaited).
C32_IntervalEndsInThePast ==
    \A s \in settled : s.how = "resolved" => dataPeriod[s.cache].to <= now

\* C33: the snapshot of a cache changes only in the step in which a fetch of
\* that cache resolves (not when a call is skipped or satisfied, nor when a
\* fetch rejects); a resolving step with a writable directory writes it; and
\* what is written has both ends of the period and is the events, the interval
\* and the adapter's fields the cache has after that step.
C33_SnapshotOnlyAfterSuccess ==
    [][\A c \in Caches :
          LET success == \E s \in settled' : s.cache = c /\ s.how = "resolved"
          IN  /\ disk'[c] # disk[c] => (success /\ writable)
              /\ (success /\ writable) =>
                    /\ dataPeriod'[c].from # Null /\ dataPeriod'[c].to # Null
                    /\ disk'[c] = [status |-> "ok",
                                   period |-> [from |-> toISOString(dataPeriod'[c].from),
                                               to |-> toISOString(dataPeriod'[c].to)],
                                   data |-> data'[c],
                                   meta |-> getMeta(c[2], meta'[c])]]_vars

\* a fetch resolved to an event and the snapshot holds the cache's events
C33_SnapshotWritten ==
    \E s \in settled :
       /\ s.how = "resolved" /\ writable /\ s.newData # <<>>
       /\ disk[s.cache].status = "ok"
       /\ disk[s.cache].data = data[s.cache]
       /\ Len(data[s.cache]) > Len(s.newData)

\* C34: a step in which the fetch of an update that found no change resolves
\* leaves every event the cache held in it at least as often as before, and a
\* cache holds fewer events after a step than before it only if in that step
\* the fetch of an update that found a change resolved.
C34_MergeRemovesNothing ==
    [][\A c \in DOMAIN data : c \in DOMAIN data' =>
          LET often(q, e) == Cardinality({n \in 1..Len(q) : q[n] = e})
          IN  /\ (\E s \in settled' : s.cache = c /\ s.how = "resolved"
                                      /\ ~s.locals.fullFetchNeeded) =>
                    \A e \in Range(data[c]) : often(data'[c], e) >= often(data[c], e)
              /\ Len(data'[c]) < Len(data[c]) =>
                    \E s \in settled' : s.cache = c /\ s.how = "resolved"
                                        /\ s.locals.fullFetchNeeded]_vars

\* an update that found no change fetched fewer events than the cache held,
\* none of them the cache's most recent one, and the cache still holds that one
C34_MergedIntoLargerCache ==
    \E s \in settled :
       /\ s.how = "resolved" /\ ~s.locals.fullFetchNeeded
       /\ Len(s.pre.data) > Len(s.newData)
       /\ s.pre.data[1] \notin Range(s.newData)
       /\ s.pre.data[1] \in Range(data[s.cache])

\* C35: while the handler awaits the getData of a cache, no step changes that
\* cache's events or interval and no fetch of it settles; the part the handler
\* holds when it starts to wait is the events of the asked range the cache has
\* then; the step that ends the wait reports the interval the cache has then;
\* so a response sent with status 200 holds, for each selected source, the
\* events of the range and the interval of one state of its cache.
C35_ReadsOfOneCacheState ==
    [][/\ awaiting =>
             LET j == Len(response.parts)
                 f == selected(request.id, request.only)[j]
                 c == <<request.id, f>>
             IN  /\ data'[c] = data[c] /\ dataPeriod'[c] = dataPeriod[c]
                 /\ \A s \in settled' : s.cache # c
                 /\ request' = request
                 /\ Len(response'.parts) >= j
                 /\ response'.parts[j] = response.parts[j]
                 /\ f \in DOMAIN response'.recency
                 /\ response'.recency[f] = [from |-> dataPeriod[c].from,
                                            to |-> dataPeriod[c].to]
       /\ awaiting' =>
             LET j == Len(response'.parts)
                 c == <<request'.id, selected(request'.id, request'.only)[j]>>
                 d == data'[c]
                 idx == SelectSeq([n \in 1..Len(d) |-> n],
                           LAMBDA n : /\ request'.from <= d[n].timestamp * 1000
                                      /\ d[n].timestamp * 1000 <= request'.to)
             IN  /\ response'.parts[j] = [i \in 1..Len(idx) |-> d[idx[i]]]
                 /\ c[2] \notin DOMAIN response'.recency
       /\ (request' # noRequest /\ response'.status = 200) =>
             LET sel == selected(request'.id, request'.only)
             IN  /\ Len(response'.parts) = Len(sel)
                 /\ DOMAIN response'.recency = Range(sel)
                 /\ \A j \in 1..Len(sel) :
                       LET c == <<request'.id, sel[j]>>
                       IN  /\ Range(response'.parts[j]) =
                                {e \in Range(data'[c]) :
                                    /\ request'.from <= e.timestamp * 1000
                                    /\ e.timestamp * 1000 <= request'.to}
                           /\ response'.recency[sel[j]] =
                                [from |-> dataPeriod'[c].from,
                                 to |-> dataPeriod'[c].to]]_vars

\* a response with the parts of two caches, one of them with a fetch awaited,
\* an event in its part and an interval reported for it
C35_AnsweredTwoSources ==
    /\ response.status = 200
    /\ Len(response.parts) = 2
    /\ \E j \in 1..2 :
          LET f == selected(request.id, request.only)[j]
              c == <<request.id, f>>
          IN  /\ isFetching[c] /\ fetches[c] # <<>>
              /\ response.parts[j] # <<>>
              /\ response.recency[f].from # Null

====
